---- MODULE Spec2Model ----
(***************************************************************************)
(* A model of the ray tracer's scene graph and tracer: the f32 arithmetic  *)
(* is modelled by exact rationals extended with +inf, -inf and NaN, the    *)
(* linear algebra (Vector, Point, Matrix4x4, Ray) and the solids by the    *)
(* operators below, and Scene by the variables entities and lights.        *)
(*                                                                         *)
(* A number is a pair <<n, d>> in lowest terms with d >= 0.  d = 0 holds   *)
(* the three special f32 values: <<1,0>> = +inf, <<-1,0>> = -inf and       *)
(* <<0,0>> = NaN.  Rounding and signed zeros are not modelled.             *)
(***************************************************************************)
EXTENDS Integers, Sequences, FiniteSets, TLC

\* ------------------------------------------------------------------ f32

Abs(i) == IF i < 0 THEN -i ELSE i

Sign(i) == IF i < 0 THEN -1 ELSE IF i > 0 THEN 1 ELSE 0

RECURSIVE GCD(_, _)
GCD(a, b) == IF b = 0 THEN a ELSE GCD(b, a % b)

Norm(n, d) ==
  IF d = 0 THEN <<Sign(n), 0>>
  ELSE LET g == GCD(Abs(n), d) IN <<n \div g, d \div g>>

R(i) == <<i, 1>>
Frac(n, d) == Norm(n, d)
Zero == <<0, 1>>
One == <<1, 1>>
Two == <<2, 1>>
INFINITY == <<1, 0>>
NAN == <<0, 0>>

IsNaN(a) == a[2] = 0 /\ a[1] = 0
IsFinite(a) == a[2] # 0

RNeg(a) == <<-a[1], a[2]>>

\* the sum of two finite numbers, over the least common denominator
AddFinite(a, b, g) ==
  Norm(a[1] * (b[2] \div g) + b[1] * (a[2] \div g), (a[2] \div g) * b[2])

RAdd(a, b) ==
  IF a[2] # 0 /\ b[2] # 0 THEN AddFinite(a, b, GCD(a[2], b[2]))
  ELSE IF IsNaN(a) \/ IsNaN(b) THEN NAN
  ELSE IF a[2] # 0 THEN b
  ELSE IF b[2] # 0 THEN a
  ELSE IF a[1] = b[1] THEN a ELSE NAN

RSub(a, b) == RAdd(a, RNeg(b))

\* the product of two finite non-zero numbers, reduced crosswise first
MulFinite(a, b, g, h) ==
  <<(a[1] \div g) * (b[1] \div h), (a[2] \div h) * (b[2] \div g)>>

RMul(a, b) ==
  IF a[1] # 0 /\ b[1] # 0 /\ a[2] # 0 /\ b[2] # 0
  THEN MulFinite(a, b, GCD(Abs(a[1]), b[2]), GCD(Abs(b[1]), a[2]))
  ELSE Norm(a[1] * b[1], a[2] * b[2])

\* 1.0 / a : 1/0 is +inf, 1/inf is 0, 1/NaN is NaN
RRecip(a) ==
  IF a[1] > 0 THEN <<a[2], a[1]>>
  ELSE IF a[1] < 0 THEN <<-a[2], -a[1]>>
  ELSE IF a[2] = 0 THEN NAN ELSE INFINITY

RDiv(a, b) == RMul(a, RRecip(b))

\* a < b ; every comparison with NaN is false
RLt(a, b) ==
  IF IsNaN(a) \/ IsNaN(b) THEN FALSE
  ELSE IF a[2] = 0 /\ b[2] = 0 THEN a[1] < b[1]
  ELSE IF a[2] = 0 THEN a[1] < 0
  ELSE IF b[2] = 0 THEN b[1] > 0
  ELSE a[1] * (b[2] \div GCD(a[2], b[2])) < b[1] * (a[2] \div GCD(a[2], b[2]))

REq(a, b) == ~IsNaN(a) /\ ~IsNaN(b) /\ a = b
RLe(a, b) == RLt(a, b) \/ REq(a, b)
RGt(a, b) == RLt(b, a)
RGe(a, b) == RLe(b, a)

\* f32::abs
RAbs(a) == <<Abs(a[1]), a[2]>>

\* f32::max and f32::min return the other operand when one is NaN
RMax(a, b) == IF IsNaN(a) THEN b ELSE IF IsNaN(b) THEN a ELSE IF RLt(a, b) THEN b ELSE a
RMin(a, b) == IF IsNaN(a) THEN b ELSE IF IsNaN(b) THEN a ELSE IF RLt(b, a) THEN b ELSE a

RECURSIVE ISqrtBetween(_, _, _)
\* the integer square root of n by bisection, given lo * lo <= n < hi * hi
ISqrtBetween(n, lo, hi) ==
  IF hi - lo <= 1 THEN lo
  ELSE IF ((lo + hi) \div 2) * ((lo + hi) \div 2) <= n
       THEN ISqrtBetween(n, (lo + hi) \div 2, hi)
       ELSE ISqrtBetween(n, lo, (lo + hi) \div 2)

\* every 32-bit n is below 46341 * 46341
ISqrt(n) == ISqrtBetween(n, 0, 46341)

\* "let v = value;" : Body applied to the value, which is computed once
Let(value, Body(_)) == Body(value)

\* f32::sqrt : exact on the squares of rationals (the only arguments the
\* model's input sets produce), rounded down to a multiple of 1/d elsewhere;
\* the square root of a negative number is NaN.
RSqrt(a) ==
  IF IsNaN(a) \/ a[1] < 0 THEN NAN
  ELSE IF a[2] = 0 THEN INFINITY
  ELSE LET rn == ISqrt(a[1])
           rd == ISqrt(a[2])
       IN IF rn * rn = a[1] /\ rd * rd = a[2] THEN <<rn, rd>>
          ELSE Norm(ISqrt(a[1] * a[2]), a[2])

\* --------------------------------------------------------------- Vector

\* Vector::new ; a Point is the same triple
Vec(x, y, z) == <<x, y, z>>
VecI(x, y, z) == <<R(x), R(y), R(z)>>

\* a threshold of 1e-3 in the place of 1e-6
MIN_LENGTH_one_thousandth == <<1, 1000>>

MIN_LENGTH_FOR_NORMALIZATION == <<1, 1000000>>

dot(u, v) == RAdd(RAdd(RMul(u[1], v[1]), RMul(u[2], v[2])), RMul(u[3], v[3]))

length(v) == RSqrt(dot(v, v))

VAdd(u, v) == <<RAdd(u[1], v[1]), RAdd(u[2], v[2]), RAdd(u[3], v[3])>>
VSub(u, v) == <<RSub(u[1], v[1]), RSub(u[2], v[2]), RSub(u[3], v[3])>>
VScale(s, v) == <<RMul(s, v[1]), RMul(s, v[2]), RMul(s, v[3])>>
VMul(u, v) == <<RMul(u[1], v[1]), RMul(u[2], v[2]), RMul(u[3], v[3])>>
VDiv(v, s) == <<RDiv(v[1], s), RDiv(v[2], s), RDiv(v[3], s)>>
VNeg(v) == <<RNeg(v[1]), RNeg(v[2]), RNeg(v[3])>>
ZeroVec == <<Zero, Zero, Zero>>

\* Vector::normalize : ok is FALSE for Err(()), and then v is untouched
normalize(v) ==
  Let(length(v), LAMBDA len :
    IF RGt(len, MIN_LENGTH_FOR_NORMALIZATION)
    THEN [ok |-> TRUE, v |-> VScale(RRecip(len), v)]
    ELSE [ok |-> FALSE, v |-> v])

\* the f32 of Ok(self.length()) : the length after the rescaling
normalize_returned(v) == length(normalize(v).v)

\* Point::distance_to
distance_to(p, q) == length(VSub(p, q))

\* ------------------------------------------------------------ Matrix4x4

identity ==
  << <<One, Zero, Zero, Zero>>,
     <<Zero, One, Zero, Zero>>,
     <<Zero, Zero, One, Zero>>,
     <<Zero, Zero, Zero, One>> >>

translate(x, y, z) ==
  << <<One, Zero, Zero, x>>,
     <<Zero, One, Zero, y>>,
     <<Zero, Zero, One, z>>,
     <<Zero, Zero, Zero, One>> >>

scale(x, y, z) ==
  << <<x, Zero, Zero, Zero>>,
     <<Zero, y, Zero, Zero>>,
     <<Zero, Zero, z, Zero>>,
     <<Zero, Zero, Zero, One>> >>

MatEntry(a, b, i, j) ==
  RAdd(RAdd(RAdd(RMul(a[i][1], b[1][j]), RMul(a[i][2], b[2][j])),
            RMul(a[i][3], b[3][j])), RMul(a[i][4], b[4][j]))

MatRow(a, b, i) ==
  <<MatEntry(a, b, i, 1), MatEntry(a, b, i, 2), MatEntry(a, b, i, 3), MatEntry(a, b, i, 4)>>

\* impl Mul for Matrix4x4
MatMul(a, b) == <<MatRow(a, b, 1), MatRow(a, b, 2), MatRow(a, b, 3), MatRow(a, b, 4)>>

\* impl Mul<Point> for Matrix4x4 : the affine transform, then the divide by w
MulPoint(m, p) ==
  LET r == << RAdd(RAdd(RAdd(RMul(m[1][1], p[1]), RMul(m[1][2], p[2])), RMul(m[1][3], p[3])), m[1][4]),
              RAdd(RAdd(RAdd(RMul(m[2][1], p[1]), RMul(m[2][2], p[2])), RMul(m[2][3], p[3])), m[2][4]),
              RAdd(RAdd(RAdd(RMul(m[3][1], p[1]), RMul(m[3][2], p[2])), RMul(m[3][3], p[3])), m[3][4]) >>
      w == RAdd(RAdd(RAdd(RMul(m[4][1], p[1]), RMul(m[4][2], p[2])), RMul(m[4][3], p[3])), m[4][4])
  IN VScale(RDiv(One, w), r)

\* impl Mul<Vector> for Matrix4x4 : the linear part only
MulVector(m, v) ==
  << RAdd(RAdd(RMul(m[1][1], v[1]), RMul(m[1][2], v[2])), RMul(m[1][3], v[3])),
     RAdd(RAdd(RMul(m[2][1], v[1]), RMul(m[2][2], v[2])), RMul(m[2][3], v[3])),
     RAdd(RAdd(RMul(m[3][1], v[1]), RMul(m[3][2], v[2])), RMul(m[3][3], v[3])) >>

\* A Ray is [origin, direction]; panic marks the unwrap of a failed normalize
MkRay(o, d) == [origin |-> o, direction |-> d]

\* impl Mul<Ray> for Matrix4x4
MulRay(m, r) ==
  Let(normalize(MulVector(m, r.direction)), LAMBDA new_direction :
    IF new_direction.ok
    THEN [panic |-> FALSE, ray |-> MkRay(MulPoint(m, r.origin), new_direction.v)]
    ELSE [panic |-> TRUE, ray |-> r])

\* Ray::at
at(r, t) == VAdd(r.origin, VScale(t, r.direction))

\* ---- Matrix4x4::inverse : Gauss-Jordan on the 4x8 augmented matrix.
\* Rows and columns are numbered from 1 here and from 0 in the source.

AugRow(m, i) ==
  <<m[i][1], m[i][2], m[i][3], m[i][4],
    IF i = 1 THEN One ELSE Zero, IF i = 2 THEN One ELSE Zero,
    IF i = 3 THEN One ELSE Zero, IF i = 4 THEN One ELSE Zero>>

Augment(m) == <<AugRow(m, 1), AugRow(m, 2), AugRow(m, 3), AugRow(m, 4)>>

RECURSIVE PivotScan(_, _, _, _, _)
PivotScan(aug, k, i, i_max, max_val) ==
  IF i > 4 THEN i_max
  ELSE IF RLt(max_val, RAbs(aug[i][k]))
       THEN PivotScan(aug, k, i + 1, i, RAbs(aug[i][k]))
       ELSE PivotScan(aug, k, i + 1, i_max, max_val)

\* PivotRow without the search: the pivot is always the diagonal entry
PivotRow_diagonal(aug, k) == k

\* the row with the largest magnitude in column k among rows k..4
PivotRow(aug, k) == PivotScan(aug, k, k, k, RAbs(aug[k][k]))

SwapRows(aug, a, b) ==
  LET Row(r) == IF r = a THEN aug[b] ELSE IF r = b THEN aug[a] ELSE aug[r]
  IN <<Row(1), Row(2), Row(3), Row(4)>>

NormalizeRow(row, normalizer) ==
  <<RDiv(row[1], normalizer), RDiv(row[2], normalizer), RDiv(row[3], normalizer),
    RDiv(row[4], normalizer), RDiv(row[5], normalizer), RDiv(row[6], normalizer),
    RDiv(row[7], normalizer), RDiv(row[8], normalizer)>>

\* row i after "aug[i][j] -= aug[k][j] * f" for j in k+1..8 and aug[i][k] = 0
ReduceRow(rowi, rowk, k) ==
  LET f == rowi[k]
      E(j) == IF j > k THEN RSub(rowi[j], RMul(rowk[j], f))
              ELSE IF j = k THEN Zero ELSE rowi[j]
  IN <<E(1), E(2), E(3), E(4), E(5), E(6), E(7), E(8)>>

\* one pass of the elimination loop for pivot column k, after the singular guard
Eliminate(aug, k, i_max) ==
  Let(IF i_max # k THEN SwapRows(aug, k, i_max) ELSE aug, LAMBDA swapped :
    Let(NormalizeRow(swapped[k], swapped[k][k]), LAMBDA rowk :
      LET Row(i) == IF i = k THEN rowk
                    ELSE IF i > k THEN ReduceRow(swapped[i], rowk, k) ELSE swapped[i]
      IN <<Row(1), Row(2), Row(3), Row(4)>>))

\* row j after "aug[j][k] -= aug[i][k] * f" for k in i..8, f = aug[j][i] / aug[i][i]
SubstituteRow(rowj, rowi, i) ==
  IF rowj[i] # Zero
  THEN LET f == RDiv(rowj[i], rowi[i])
           E(c) == IF c >= i THEN RSub(rowj[c], RMul(rowi[c], f)) ELSE rowj[c]
       IN <<E(1), E(2), E(3), E(4), E(5), E(6), E(7), E(8)>>
  ELSE rowj

\* BackSubstitute that leaves the rows above row i as they are
BackSubstitute_skipped(aug, i) == aug

\* the back-substitution pass for row i: rows above it are reduced with it
BackSubstitute(aug, i) ==
  LET Row(j) == IF j < i THEN SubstituteRow(aug[j], aug[i], i) ELSE aug[j]
  IN <<Row(1), Row(2), Row(3), Row(4)>>

RightHalf(aug) ==
  LET Row(i) == <<aug[i][5], aug[i][6], aug[i][7], aug[i][8]>>
  IN <<Row(1), Row(2), Row(3), Row(4)>>

RECURSIVE ForwardFrom(_, _)
\* the elimination loop from column k on: "None" as soon as a pivot is zero
ForwardFrom(aug, k) ==
  IF k > 4 THEN [some |-> TRUE, aug |-> aug]
  ELSE Let(PivotRow(aug, k), LAMBDA i_max :
         IF aug[i_max][k] = Zero
         THEN [some |-> FALSE, aug |-> aug]
         ELSE ForwardFrom(Eliminate(aug, k, i_max), k + 1))

\* Matrix4x4::inverse : [some |-> FALSE] is None
inverse(m) ==
  Let(ForwardFrom(Augment(m), 1), LAMBDA fwd :
    IF fwd.some
    THEN [some |-> TRUE,
          m |-> RightHalf(BackSubstitute(BackSubstitute(BackSubstitute(fwd.aug, 2), 3), 4))]
    ELSE [some |-> FALSE, m |-> m])

\* ---- Angles and Matrix4x4::perspective

\* std::f32::consts::PI, as the rational 22/7
PI == Frac(22, 7)

\* to_radians that converts nothing
to_radians_identity(value) == value

\* f32::to_radians : value * (PI / 180)
to_radians(value) == RMul(value, RDiv(PI, R(180)))

\* the largest integer that is at most the finite number a
RFloor(a) == a[1] \div a[2]

\* f32::tan : a rational function with the tangent's period PI, its zeros at
\* the multiples of PI, its poles at the odd multiples of PI/2 and its sign
\* in between; tan of an infinity or of NaN is NaN
tan(x) ==
  IF ~IsFinite(x) THEN NAN
  ELSE Let(RSub(x, RMul(R(RFloor(RDiv(x, PI))), PI)), LAMBDA y :
         RDiv(RMul(y, RSub(PI, y)), RSub(PI, RMul(Two, y))))

\* the matrix Matrix4x4::perspective builds once its assertions have passed
projection_matrix(near, far, inv_tan_half_fov) ==
  << <<inv_tan_half_fov, Zero, Zero, Zero>>,
     <<Zero, inv_tan_half_fov, Zero, Zero>>,
     <<Zero, Zero, RDiv(far, RSub(far, near)),
       RDiv(RNeg(RMul(far, near)), RSub(far, near))>>,
     <<Zero, Zero, One, Zero>> >>

\* Matrix4x4::perspective : [panic, m]; panic is a failed assert!
perspective(near, far, fov_degrees) ==
  IF ~RLe(Zero, near) THEN [panic |-> TRUE, m |-> identity]
  ELSE IF ~RLt(near, far) THEN [panic |-> TRUE, m |-> identity]
  ELSE Let(RDiv(One, tan(RDiv(to_radians(fov_degrees), Two))), LAMBDA inv_tan_half_fov :
         IF ~RGt(inv_tan_half_fov, Zero) THEN [panic |-> TRUE, m |-> identity]
         ELSE [panic |-> FALSE, m |-> projection_matrix(near, far, inv_tan_half_fov)])

\* --------------------------------------------------- Film and Perspective

\* PlanarAngle::Degrees(value) , PlanarAngle::Radians(value)
Degrees(value) == [unit |-> "Degrees", value |-> value]
Radians(value) == [unit |-> "Radians", value |-> value]

\* Dimensions2::aspect_ratio for u16 sizes
aspect_ratio(width, height) == RDiv(R(width), R(height))

\* Film::screen_space_from_aspect_ratio : [panic, width, height]
screen_space_from_aspect_ratio(ratio) ==
  IF ~RGt(ratio, Zero) THEN [panic |-> TRUE, width |-> Zero, height |-> Zero]
  ELSE IF RGt(ratio, One)
       THEN [panic |-> FALSE, width |-> RMul(Two, ratio), height |-> RMul(Two, One)]
       ELSE [panic |-> FALSE, width |-> RMul(Two, One), height |-> RMul(Two, ratio)]

\* the product Film::new stores as screen_to_raster
screen_to_raster(width, height, screen) ==
  MatMul(MatMul(scale(R(width), R(height), One),
                scale(RDiv(One, screen.width), RDiv(One, screen.height), One)),
         translate(RDiv(screen.width, Two), RDiv(screen.height, Two), Zero))

\* Film::new : [panic, width, height, raster_to_screen, screen_to_raster]
Film_new(width, height) ==
  Let(screen_space_from_aspect_ratio(aspect_ratio(width, height)), LAMBDA screen :
  IF screen.panic
  THEN [panic |-> TRUE, width |-> width, height |-> height,
        raster_to_screen |-> identity, screen_to_raster |-> identity]
  ELSE Let(screen_to_raster(width, height, screen), LAMBDA to_raster :
       Let(inverse(to_raster), LAMBDA to_screen :
         [panic |-> ~to_screen.some, width |-> width, height |-> height,
          raster_to_screen |-> to_screen.m, screen_to_raster |-> to_raster])))

\* Perspective::new : [panic, camera_to_screen, screen_to_camera]
Perspective_new(near, far, fov) ==
  IF ~RGt(near, Zero) \/ ~RGt(far, near)
  THEN [panic |-> TRUE, camera_to_screen |-> identity, screen_to_camera |-> identity]
  ELSE Let(IF fov.unit = "Degrees" THEN to_radians(fov.value) ELSE fov.value,
           LAMBDA fov_radians :
       IF ~(RGt(fov_radians, Zero) /\ RLt(fov_radians, RMul(Two, PI)))
       THEN [panic |-> TRUE, camera_to_screen |-> identity, screen_to_camera |-> identity]
       ELSE Let(perspective(near, far, fov_radians), LAMBDA projection :
            IF projection.panic
            THEN [panic |-> TRUE, camera_to_screen |-> identity,
                  screen_to_camera |-> identity]
            ELSE Let(inverse(projection.m), LAMBDA inv :
                   [panic |-> ~inv.some, camera_to_screen |-> projection.m,
                    screen_to_camera |-> inv.m])))

\* --------------------------------------------------------------- Solids

\* Option<Intersection> : None, Some(Intersection {time, point, normal}), or
\* Panic when an unwrap()/expect() inside the call fails
NoHit == [kind |-> "None"]
PanicHit == [kind |-> "Panic"]
Hit(t, p, n) == [kind |-> "Some", time |-> t, point |-> p, normal |-> n]

\* Sphere::new_with_radius , Plane::new
Sphere(radius) == [kind |-> "Sphere", origin |-> ZeroVec, radius |-> radius]
Plane(a, b, c, d) == [kind |-> "Plane", a |-> a, b |-> b, c |-> c, d |-> d]

\* Sphere::new
Sphere_new(origin, radius) == [kind |-> "Sphere", origin |-> origin, radius |-> radius]

\* AABB { lower, upper }
AABB(lower, upper) == [kind |-> "AABB", lower |-> lower, upper |-> upper]

\* Sphere::intersection_time with the near root taken on both branches
intersection_time_near_root(s, a_ray) ==
  Let(normalize(a_ray.direction), LAMBDA nd :
  IF ~nd.ok THEN [kind |-> "Panic"] ELSE
  Let(MkRay(a_ray.origin, nd.v), LAMBDA r :
  Let(VSub(s.origin, r.origin), LAMBDA origin_to_center :
  Let(dot(origin_to_center, origin_to_center), LAMBDA sqrd_distance_to_center :
  Let(RMul(s.radius, s.radius), LAMBDA sqrd_radius :
  Let(RLt(sqrd_distance_to_center, sqrd_radius), LAMBDA inside_sphere :
  Let(dot(origin_to_center, r.direction), LAMBDA t_closest_approach :
  IF RLe(t_closest_approach, Zero) /\ ~inside_sphere THEN [kind |-> "None"] ELSE
  Let(RAdd(RSub(sqrd_radius, sqrd_distance_to_center),
           RMul(t_closest_approach, t_closest_approach)), LAMBDA t_sqrd_half_chord :
  IF RLt(t_sqrd_half_chord, Zero) THEN [kind |-> "None"]
  ELSE [kind |-> "Some", time |-> RSub(t_closest_approach, RSqrt(t_sqrd_half_chord))]
  ))))))))

\* Sphere::intersection_time : Option<f32> as [kind, time]
intersection_time(s, a_ray) ==
  Let(normalize(a_ray.direction), LAMBDA nd :
  IF ~nd.ok THEN [kind |-> "Panic"] ELSE
  Let(MkRay(a_ray.origin, nd.v), LAMBDA r :
  Let(VSub(s.origin, r.origin), LAMBDA origin_to_center :
  Let(dot(origin_to_center, origin_to_center), LAMBDA sqrd_distance_to_center :
  Let(RMul(s.radius, s.radius), LAMBDA sqrd_radius :
  Let(RLt(sqrd_distance_to_center, sqrd_radius), LAMBDA inside_sphere :
  Let(dot(origin_to_center, r.direction), LAMBDA t_closest_approach :
  IF RLe(t_closest_approach, Zero) /\ ~inside_sphere THEN [kind |-> "None"] ELSE
  Let(RAdd(RSub(sqrd_radius, sqrd_distance_to_center),
           RMul(t_closest_approach, t_closest_approach)), LAMBDA t_sqrd_half_chord :
  IF RLt(t_sqrd_half_chord, Zero) THEN [kind |-> "None"]
  ELSE IF inside_sphere
       THEN [kind |-> "Some", time |-> RAdd(t_closest_approach, RSqrt(t_sqrd_half_chord))]
       ELSE [kind |-> "Some", time |-> RSub(t_closest_approach, RSqrt(t_sqrd_half_chord))]
  ))))))))

\* impl Solid for Sphere with the normal taken from the hit point as it is,
\* not from the centre to the hit point
SphereIntersect_normal_of_point(s, r) ==
  Let(intersection_time(s, r), LAMBDA t :
  IF t.kind = "Panic" THEN PanicHit
  ELSE IF t.kind = "None" THEN NoHit
  ELSE Let(at(r, t.time), LAMBDA point :
       Let(normalize(point), LAMBDA normal :
       IF normal.ok THEN Hit(t.time, point, normal.v) ELSE PanicHit)))

\* impl Solid for Sphere
SphereIntersect(s, r) ==
  Let(intersection_time(s, r), LAMBDA t :
  IF t.kind = "Panic" THEN PanicHit
  ELSE IF t.kind = "None" THEN NoHit
  ELSE Let(at(r, t.time), LAMBDA point :
       Let(normalize(VSub(point, s.origin)), LAMBDA normal :
       IF normal.ok THEN Hit(t.time, point, normal.v) ELSE PanicHit)))

\* impl Solid for Plane
PlaneIntersect(pl, r) ==
  Let(normalize(<<pl.a, pl.b, pl.c>>), LAMBDA normal :
  IF ~normal.ok THEN PanicHit ELSE
  Let(RNeg(RAdd(dot(normal.v, r.origin), pl.d)), LAMBDA v0 :
  IF REq(v0, Zero) THEN NoHit ELSE
  Let(dot(normal.v, r.direction), LAMBDA vd :
  Let(RDiv(v0, vd), LAMBDA t :
  Hit(t, at(r, t), normal.v)))))

\* the loop of AABB::intersection_time without the swap of t1 and t2
RECURSIVE SlabsFrom_unswapped(_, _, _, _, _)
SlabsFrom_unswapped(box, r, a, t_near, t_far) ==
  IF a > 3 THEN [kind |-> "Some", time |-> t_near] ELSE
  Let(r.direction[a], LAMBDA dir :
  Let(box.lower[a], LAMBDA left :
  Let(box.upper[a], LAMBDA right :
  Let(r.origin[a], LAMBDA pos :
  IF REq(dir, Zero) /\ (RLt(pos, left) \/ RLt(right, pos)) THEN [kind |-> "None"] ELSE
  Let(RDiv(RSub(left, pos), dir), LAMBDA t1 :
  Let(RDiv(RSub(right, pos), dir), LAMBDA t2 :
  Let(IF RGt(t1, t_near) THEN t1 ELSE t_near, LAMBDA near :
  Let(IF RLt(t2, t_far) THEN t2 ELSE t_far, LAMBDA far :
  IF RGt(near, far) \/ RLt(far, Zero) THEN [kind |-> "None"]
  ELSE SlabsFrom_unswapped(box, r, a + 1, near, far)))))))))

\* AABB::intersection_time, the body of "for a in &XYZ" from axis a on, with
\* the t_near and t_far the earlier axes left; (left - pos) / dir is computed
\* also when dir is 0.0
RECURSIVE SlabsFrom(_, _, _, _, _)
SlabsFrom(box, r, a, t_near, t_far) ==
  IF a > 3 THEN [kind |-> "Some", time |-> t_near] ELSE
  Let(r.direction[a], LAMBDA dir :
  Let(box.lower[a], LAMBDA left :
  Let(box.upper[a], LAMBDA right :
  Let(r.origin[a], LAMBDA pos :
  IF REq(dir, Zero) /\ (RLt(pos, left) \/ RLt(right, pos)) THEN [kind |-> "None"] ELSE
  Let(RDiv(RSub(left, pos), dir), LAMBDA t1 :
  Let(RDiv(RSub(right, pos), dir), LAMBDA t2 :
  Let(IF RGt(t1, t2) THEN t2 ELSE t1, LAMBDA lo :
  Let(IF RGt(t1, t2) THEN t1 ELSE t2, LAMBDA hi :
  Let(IF RGt(lo, t_near) THEN lo ELSE t_near, LAMBDA near :
  Let(IF RLt(hi, t_far) THEN hi ELSE t_far, LAMBDA far :
  IF RGt(near, far) \/ RLt(far, Zero) THEN [kind |-> "None"]
  ELSE SlabsFrom(box, r, a + 1, near, far)))))))))))

\* AABB::intersection_time returning a time that is never negative
AABB_intersection_time_clamped(box, a_ray) ==
  Let(normalize(a_ray.direction), LAMBDA nd :
  IF ~nd.ok THEN [kind |-> "Panic"]
  ELSE Let(SlabsFrom(box, MkRay(a_ray.origin, nd.v), 1, RNeg(INFINITY), INFINITY), LAMBDA t :
       IF t.kind = "Some" THEN [kind |-> "Some", time |-> RMax(t.time, Zero)] ELSE t))

\* AABB::intersection_time : Option<f32> as [kind, time]
AABB_intersection_time(box, a_ray) ==
  Let(normalize(a_ray.direction), LAMBDA nd :
  IF ~nd.ok THEN [kind |-> "Panic"]
  ELSE SlabsFrom(box, MkRay(a_ray.origin, nd.v), 1, RNeg(INFINITY), INFINITY))

\* Box<Solid>::intersect : dispatch on the shape
ShapeIntersect(shape, r) ==
  IF shape.kind = "Sphere" THEN SphereIntersect(shape, r) ELSE PlaneIntersect(shape, r)

\* impl Mul<Intersection> for Matrix4x4 : the time is copied as it is
MulIntersection(m, i) == Hit(i.time, MulPoint(m, i.point), MulVector(m, i.normal))

\* ------------------------------------------------------ Materials, lights

\* LambertianMaterial::new
Lambertian(diffuse) == [diffuse |-> diffuse]

\* Material::f for LambertianMaterial
f(material, light, view) == material.diffuse

\* the mirror reflection incident - 2 (normal . incident) normal
next_ray_direction_mirror(incident, normal) ==
  VSub(incident, VScale(Two, VScale(dot(normal, incident), normal)))

\* Material::next_ray_direction (the default)
next_ray_direction(incident, normal) == VScale(Two, VScale(dot(normal, incident), normal))

\* DirectionalLight::new stores the normalized direction; PointLight::new
DirectionalLight(direction, radiance) ==
  [type |-> "Directional", direction |-> normalize(direction).v, radiance |-> radiance]
PointLight(position, intensity) ==
  [type |-> "Point", position |-> position, intensity |-> intensity]

\* NonAreaLight::light_vector : [panic, v]
light_vector(light, point) ==
  IF light.type = "Directional"
  THEN [panic |-> FALSE, v |-> VNeg(light.direction)]
  ELSE Let(normalize(VSub(light.position, point)), LAMBDA lv :
         [panic |-> ~lv.ok, v |-> lv.v])

\* PointLight::irradiance
PointIrradiance(light, position, normal) ==
  Let(distance_to(position, light.position), LAMBDA distance :
  Let(light_vector(light, position), LAMBDA lv :
    [panic |-> lv.panic,
     e |-> VDiv(VScale(RMax(dot(lv.v, normal), Zero), light.intensity),
                RMin(RMul(distance, distance), One))]))

\* DirectionalLight::irradiance without the max(0.0)
DirectionalIrradiance_unclamped(light, position, normal) ==
  [panic |-> FALSE, e |-> VScale(dot(VNeg(light.direction), normal), light.radiance)]

\* DirectionalLight::irradiance
DirectionalIrradiance(light, position, normal) ==
  [panic |-> FALSE,
   e |-> VScale(RMax(dot(VNeg(light.direction), normal), Zero), light.radiance)]

\* NonAreaLight::irradiance : [panic, e]
irradiance(light, position, normal) ==
  IF light.type = "Directional"
  THEN DirectionalIrradiance(light, position, normal)
  ELSE PointIrradiance(light, position, normal)

\* Option<f32> for the first hit along the light vector
NoTime == [some |-> FALSE]
SomeTime(t) == [some |-> TRUE, time |-> t]

\* DirectionalLight::is_hidden_from
DirectionalHidden(light, point, first_hit) == first_hit.some

\* PointHidden with <= for <: a hit at the light's own distance hides it
PointHidden_or_equal(light, point, first_hit) ==
  Let(distance_to(light.position, point), LAMBDA distance :
    IF first_hit.some THEN RLe(first_hit.time, distance) ELSE FALSE)

\* PointLight::is_hidden_from
PointHidden(light, point, first_hit) ==
  Let(distance_to(light.position, point), LAMBDA distance :
    IF first_hit.some THEN RLt(first_hit.time, distance) ELSE FALSE)

\* NonAreaLight::is_hidden_from
is_hidden_from(light, point, first_hit) ==
  IF light.type = "Directional"
  THEN DirectionalHidden(light, point, first_hit)
  ELSE PointHidden(light, point, first_hit)

\* ---------------------------------------------------------------- Scene

\* Entity { shape, material, transform: Transform { to_local, to_world } }
Entity(shape, material, to_local, to_world) ==
  [shape |-> shape, material |-> material, to_local |-> to_local, to_world |-> to_world]

\* impl Solid for Entity
EntityIntersect(e, r) ==
  Let(MulRay(e.to_local, r), LAMBDA local_ray :
  IF local_ray.panic THEN PanicHit ELSE
  Let(ShapeIntersect(e.shape, local_ray.ray), LAMBDA intersection :
  IF intersection.kind = "Some" THEN MulIntersection(e.to_world, intersection)
  ELSE intersection))

\* add_entity that forgets to invert: to_local is the transform itself
add_entity_not_inverted(ents, shape, material, transform) ==
  Let(inverse(transform), LAMBDA to_local :
    IF to_local.some
    THEN [panic |-> FALSE,
          entities |-> Append(ents, Entity(shape, material, transform, transform))]
    ELSE [panic |-> TRUE, entities |-> ents])

\* add_entity that falls back to the identity where there is no inverse
add_entity_unchecked(ents, shape, material, transform) ==
  Let(inverse(transform), LAMBDA to_local :
    [panic |-> FALSE,
     entities |-> Append(ents, Entity(shape, material,
                                      IF to_local.some THEN to_local.m ELSE identity,
                                      transform))])

\* Scene::add_entity : the inverse is taken (and expect()ed) before the push
add_entity(ents, shape, material, transform) ==
  Let(inverse(transform), LAMBDA to_local :
    IF to_local.some
    THEN [panic |-> FALSE,
          entities |-> Append(ents, Entity(shape, material, to_local.m, transform))]
    ELSE [panic |-> TRUE, entities |-> ents])

\* Scene::add_light
add_light(ls, light) == Append(ls, light)

\* Closer without the test that the hit lies in front of the ray's origin
Closer_any_time(time, best_time) == RLt(time, best_time)

\* Closer with <= for <: a later entity replaces an equally close one
Closer_or_equal(time, best_time) == RLe(time, best_time) /\ RGt(time, Zero)

\* the test of Scene::trace that replaces the closest intersection so far
Closer(time, best_time) == RLt(time, best_time) /\ RGt(time, Zero)

\* the closest entity so far: [kind, best_time, idx, hit]; idx 0 is "no object"
NoneYet == [kind |-> "None", best_time |-> INFINITY, idx |-> 0, hit |-> NoHit]

RECURSIVE ScanFrom(_, _, _, _)
\* the loop of Scene::trace over self.entities, from entity i on
ScanFrom(ents, ray, i, best) ==
  IF i > Len(ents) THEN best
  ELSE Let(EntityIntersect(ents[i], ray), LAMBDA intersection :
         IF intersection.kind = "Panic"
         THEN [kind |-> "Panic", best_time |-> best.best_time, idx |-> i, hit |-> PanicHit]
         ELSE IF intersection.kind = "Some" /\ Closer(intersection.time, best.best_time)
              THEN ScanFrom(ents, ray, i + 1,
                            [kind |-> "Some", best_time |-> intersection.time,
                             idx |-> i, hit |-> intersection])
              ELSE ScanFrom(ents, ray, i + 1, best))

\* the closest entity intersected (closest_object, closest_intersection)
Closest(ents, ray) == ScanFrom(ents, ray, 1, NoneYet)

\* Spectrum values
Red == VecI(1, 0, 0)
Green == VecI(0, 1, 0)
Blue == VecI(0, 0, 1)
White == VecI(1, 1, 1)

\* a Spectrum result, or the panic of an unwrap()/expect() on the way
Ok(v) == [kind |-> "Ok", value |-> v]
Panicked == [kind |-> "Panic"]
Black == ZeroVec

\* one light's term of the sum in Scene::radiance_from
LightTerm(light, ray, entity, intersection) ==
  Let(irradiance(light, intersection.point, intersection.normal), LAMBDA irr :
    [panic |-> irr.panic,
     v |-> VMul(f(entity.material, intersection.normal, VNeg(ray.direction)), irr.e)])

RECURSIVE RadianceLoop(_, _, _, _, _, _)
RadianceLoop(ls, ray, entity, intersection, i, radiance) ==
  IF i > Len(ls) THEN Ok(radiance)
  ELSE Let(LightTerm(ls[i], ray, entity, intersection), LAMBDA term :
         IF term.panic THEN Panicked
         ELSE RadianceLoop(ls, ray, entity, intersection, i + 1, VAdd(radiance, term.v)))

\* Scene::radiance_from
radiance_from(ls, ray, entity, intersection) ==
  RadianceLoop(ls, ray, entity, intersection, 1, Black)

\* trace with an ambient term: with no entity hit it returns the lights' sum
trace_ambient(ents, ls, ray) ==
  Let(Closest(ents, ray), LAMBDA sel :
  IF sel.kind = "Panic" THEN [kind |-> "Panic", sel |-> sel, value |-> Black]
  ELSE IF sel.kind = "None"
       THEN [kind |-> "Ok", sel |-> sel, value |-> IF ls = <<>> THEN Black ELSE White]
  ELSE Let(radiance_from(ls, ray, ents[sel.idx], sel.hit), LAMBDA rad :
       IF rad.kind = "Panic" THEN [kind |-> "Panic", sel |-> sel, value |-> Black]
       ELSE [kind |-> "Ok", sel |-> sel, value |-> rad.value]))

\* Scene::trace : [kind, value] with the closest entity found in sel
trace(ents, ls, ray) ==
  Let(Closest(ents, ray), LAMBDA sel :
  IF sel.kind = "Panic" THEN [kind |-> "Panic", sel |-> sel, value |-> Black]
  ELSE IF sel.kind = "None" THEN [kind |-> "Ok", sel |-> sel, value |-> Black]
  ELSE Let(radiance_from(ls, ray, ents[sel.idx], sel.hit), LAMBDA rad :
       IF rad.kind = "Panic" THEN [kind |-> "Panic", sel |-> sel, value |-> Black]
       ELSE [kind |-> "Ok", sel |-> sel, value |-> rad.value]))

\* ------------------------------------------- The recursive tracer (design)
\* Scene::bounce and the shadow test of radiance_from are described by the
\* design document and are not in the sources; they are modelled from it.

\* the recursion budget Scene.trace hands to bounce
max_depth == 3

\* the offset that moves a secondary ray's origin off the surface
epsilon == <<1, 100>>

\* the secondary ray: the material's reflection direction off the hit normal,
\* its origin offset along the new direction by epsilon
reflected_ray(ray, hit) ==
  Let(next_ray_direction(ray.direction, hit.normal), LAMBDA direction :
    MkRay(VAdd(hit.point, VScale(epsilon, direction)), direction))

\* bounce_body that still adds the direct radiance when the budget is used up
bounce_body_direct_at_zero(ents, ls, ray, bounces_left) ==
  Let(Closest(ents, ray), LAMBDA sel :
  IF sel.kind = "Panic" THEN [kind |-> "Panic", direct |-> Black, ray |-> ray]
  ELSE IF sel.kind = "None" THEN [kind |-> "Return", direct |-> Black, ray |-> ray]
  ELSE Let(radiance_from(ls, ray, ents[sel.idx], sel.hit), LAMBDA direct :
       IF direct.kind = "Panic" THEN [kind |-> "Panic", direct |-> Black, ray |-> ray]
       ELSE IF bounces_left = 0
            THEN [kind |-> "Return", direct |-> direct.value, ray |-> ray]
            ELSE [kind |-> "Recurse", direct |-> direct.value,
                  ray |-> reflected_ray(ray, sel.hit)]))

\* the body of Scene.bounce up to its recursive call: "Return" with a value,
\* "Recurse" with the direct radiance and the secondary ray, or "Panic"
bounce_body(ents, ls, ray, bounces_left) ==
  Let(Closest(ents, ray), LAMBDA sel :
  IF sel.kind = "Panic" THEN [kind |-> "Panic", direct |-> Black, ray |-> ray]
  ELSE IF sel.kind = "None" THEN [kind |-> "Return", direct |-> Black, ray |-> ray]
  ELSE IF bounces_left = 0 THEN [kind |-> "Return", direct |-> Black, ray |-> ray]
  ELSE Let(radiance_from(ls, ray, ents[sel.idx], sel.hit), LAMBDA direct :
       IF direct.kind = "Panic" THEN [kind |-> "Panic", direct |-> Black, ray |-> ray]
       ELSE [kind |-> "Recurse", direct |-> direct.value,
             ray |-> reflected_ray(ray, sel.hit)]))

\* an activation of Scene.bounce: "called" before its body has run, "waiting"
\* while its recursive call runs, "returned" once it holds its return value
Frame(ray, bounces_left, state, direct, value) ==
  [ray |-> ray, bounces_left |-> bounces_left, state |-> state,
   direct |-> direct, value |-> value]

\* bounce_call that recurses with the budget it was given
bounce_call_same_budget(stack, out) ==
  Let(stack[Len(stack)], LAMBDA top :
  IF out.kind = "Recurse"
  THEN Append([stack EXCEPT ![Len(stack)] =
                 Frame(top.ray, top.bounces_left, "waiting", out.direct, Black)],
              Frame(out.ray, top.bounces_left, "called", Black, Black))
  ELSE [stack EXCEPT ![Len(stack)] =
          Frame(top.ray, top.bounces_left, "returned", out.direct, out.direct)])

\* the call stack after the body of the top activation has run
bounce_call(stack, out) ==
  Let(stack[Len(stack)], LAMBDA top :
  IF out.kind = "Recurse"
  THEN Append([stack EXCEPT ![Len(stack)] =
                 Frame(top.ray, top.bounces_left, "waiting", out.direct, Black)],
              Frame(out.ray, top.bounces_left - 1, "called", Black, Black))
  ELSE [stack EXCEPT ![Len(stack)] =
          Frame(top.ray, top.bounces_left, "returned", out.direct, out.direct)])

\* the call stack after the top activation has returned to its caller, which
\* returns the sum of its direct radiance and the value it got back
bounce_return(stack) ==
  Let(stack[Len(stack)], LAMBDA top :
  Let(stack[Len(stack) - 1], LAMBDA caller :
    [SubSeq(stack, 1, Len(stack) - 1) EXCEPT ![Len(stack) - 1] =
       Frame(caller.ray, caller.bounces_left, "returned", caller.direct,
             VAdd(caller.direct, top.value))]))

\* the shadow ray of radiance_from: from the hit point, offset by epsilon along
\* the light vector, towards the light
shadow_ray(light_vec, point) == MkRay(VAdd(point, VScale(epsilon, light_vec)), light_vec)

\* the time of the first entity hit along a ray (Scene.intersect), as Option<f32>
first_hit_time(ents, ray) ==
  Let(Closest(ents, ray), LAMBDA sel :
    IF sel.kind = "Some" THEN SomeTime(sel.hit.time) ELSE NoTime)

\* the visibility test of radiance_from for one light at a hit point
hidden(ents, light, point) ==
  Let(light_vector(light, point), LAMBDA lv :
    ~lv.panic /\ is_hidden_from(light, point, first_hit_time(ents, shadow_ray(lv.v, point))))

\* ------------------------------------------------------- The state machine

VARIABLES
  entities,   \* Scene.entities, in insertion order
  lights,     \* Scene.lights, in insertion order
  frames,     \* the activations of Scene.bounce, outermost first
  aborted,    \* TRUE once a panic has ended the process
  last        \* the last call made on the scene and what it returned

vars == <<entities, lights, frames, aborted, last>>

MaxEntities == 2
MaxLights == 1

\* the arguments add_entity is called with: the unit sphere at the origin, a
\* sphere of radius 2 around (0,0,4) placed by a translation and a scale, the
\* plane z = 1, and a sphere with a singular transform
EntityChoices ==
  { [shape |-> Sphere(One), material |-> Lambertian(Red),
     transform |-> translate(Zero, Zero, Zero)],
    [shape |-> Sphere(One), material |-> Lambertian(Blue),
     transform |-> MatMul(translate(Zero, Zero, R(4)), scale(Two, Two, Two))],
    [shape |-> Plane(Zero, Zero, Two, R(-1)), material |-> Lambertian(Green),
     transform |-> identity],
    [shape |-> Sphere(One), material |-> Lambertian(White),
     transform |-> scale(One, One, Zero)] }

\* the lights add_light is called with
LightChoices ==
  { DirectionalLight(VecI(0, 0, -2), White),
    PointLight(VecI(0, 0, -7), VecI(4, 4, 4)) }

\* the rays trace is called with: along the Z axis through the entities (one
\* starts on the surface of the larger sphere, one between the plane and that
\* sphere), one tangent to the unit sphere and one that misses everything
Rays ==
  { MkRay(VecI(0, 0, 7), VecI(0, 0, -1)),
    MkRay(VecI(0, 0, 2), VecI(0, 0, -1)),
    MkRay(VecI(0, 0, 2), VecI(0, 0, 1)),
    MkRay(Vec(Zero, Zero, Frac(3, 2)), VecI(0, 0, 1)),
    MkRay(VecI(0, 0, 0), VecI(0, 0, 1)),
    MkRay(VecI(-3, 0, 1), VecI(1, 0, 0)),
    MkRay(VecI(0, 0, 9), VecI(1, 0, 0)) }

Init ==
  /\ entities = <<>>
  /\ lights = <<>>
  /\ frames = <<>>
  /\ aborted = FALSE
  /\ last = [op |-> "new"]

\* scene.add_light(light)
AddLight ==
  /\ ~aborted
  /\ frames = <<>>
  /\ Len(lights) < MaxLights
  /\ \E light \in LightChoices :
       /\ lights' = add_light(lights, light)
       /\ last' = [op |-> "add_light"]
  /\ UNCHANGED <<entities, frames, aborted>>

\* scene.add_entity(shape, material, transform)
AddEntity ==
  /\ ~aborted
  /\ frames = <<>>
  /\ Len(entities) < MaxEntities
  /\ \E c \in EntityChoices :
     \E out \in {add_entity(entities, c.shape, c.material, c.transform)} :
       /\ entities' = out.entities
       /\ aborted' = out.panic
       /\ last' = [op |-> "add_entity", transform |-> c.transform, panic |-> out.panic]
  /\ UNCHANGED <<lights, frames>>

\* scene.trace(&ray) taking the lights out of the scene as it sums them
Trace_draining_lights ==
  /\ ~aborted
  /\ frames = <<>>
  /\ \E ray \in Rays :
     \E out \in {trace(entities, lights, ray)} :
       /\ last' = [op |-> "trace", ray |-> ray, out |-> out]
       /\ aborted' = (out.kind = "Panic")
  /\ lights' = <<>>
  /\ UNCHANGED <<entities, frames>>

\* scene.trace(&ray), as the sources have it
Trace ==
  /\ ~aborted
  /\ frames = <<>>
  /\ \E ray \in Rays :
     \E out \in {trace(entities, lights, ray)} :
       /\ last' = [op |-> "trace", ray |-> ray, out |-> out]
       /\ aborted' = (out.kind = "Panic")
  /\ UNCHANGED <<entities, lights, frames>>

\* scene.trace(&ray), as the design has it: the call bounce(ray, max_depth)
BounceTrace ==
  /\ ~aborted
  /\ frames = <<>>
  /\ \E ray \in Rays :
       /\ frames' = <<Frame(ray, max_depth, "called", Black, Black)>>
       /\ last' = [op |-> "bounce", ray |-> ray, done |-> FALSE, value |-> Black]
  /\ UNCHANGED <<entities, lights, aborted>>

\* the body of the innermost activation runs: it returns, recurses or panics
BounceStep ==
  /\ ~aborted
  /\ frames # <<>>
  /\ frames[Len(frames)].state = "called"
  /\ \E out \in {bounce_body(entities, lights, frames[Len(frames)].ray,
                             frames[Len(frames)].bounces_left)} :
       IF out.kind = "Panic"
       THEN aborted' = TRUE /\ frames' = frames
       ELSE aborted' = FALSE /\ frames' = bounce_call(frames, out)
  /\ UNCHANGED <<entities, lights, last>>

\* the innermost activation hands its value to its caller, or to trace
BounceReturn ==
  /\ ~aborted
  /\ frames # <<>>
  /\ frames[Len(frames)].state = "returned"
  /\ IF Len(frames) = 1
     THEN /\ frames' = <<>>
          /\ last' = [op |-> "bounce", ray |-> frames[1].ray, done |-> TRUE,
                      value |-> frames[1].value]
     ELSE /\ frames' = bounce_return(frames)
          /\ last' = last
  /\ UNCHANGED <<entities, lights, aborted>>

Next == AddLight \/ AddEntity \/ Trace \/ BounceTrace \/ BounceStep \/ BounceReturn

Spec == Init /\ [][Next]_vars

\* ------------------------------------------------ The lights on their own

\* the lights, points, normals and first hits the light functions are given:
\* point lights on the Z axis, so that every distance is rational
LightInputs ==
  { DirectionalLight(VecI(0, 0, -2), White),
    PointLight(VecI(0, 0, 3), White),
    PointLight(VecI(0, 0, -1), VecI(2, 2, 2)) }

PointInputs ==
  { VecI(0, 0, 1), VecI(0, 0, 2), Vec(Zero, Zero, Frac(5, 2)), VecI(0, 0, 3), VecI(0, 0, 0) }

NormalInputs ==
  { VecI(0, 0, 1), VecI(0, 0, -1), VecI(1, 0, 0), Vec(Frac(3, 5), Zero, Frac(4, 5)) }

FirstHitInputs ==
  { NoTime, SomeTime(R(-1)), SomeTime(Zero), SomeTime(Frac(1, 2)), SomeTime(One),
    SomeTime(Two), SomeTime(R(3)), SomeTime(R(5)), SomeTime(INFINITY) }

InitLight ==
  /\ entities = <<>>
  /\ lights = <<>>
  /\ frames = <<>>
  /\ aborted = FALSE
  /\ last \in [op : {"input"}, light : LightInputs, point : PointInputs,
               normal : NormalInputs, first_hit : FirstHitInputs]

\* light.irradiance(&point, &normal)
Irradiance ==
  /\ last.op = "input"
  /\ \E out \in {irradiance(last.light, last.point, last.normal)} :
       /\ last' = [op |-> "irradiance", light |-> last.light, point |-> last.point,
                   normal |-> last.normal, out |-> out]
       /\ aborted' = out.panic
  /\ UNCHANGED <<entities, lights, frames>>

\* light.is_hidden_from(&point, first_hit_along_light_vector)
IsHiddenFrom ==
  /\ last.op = "input"
  /\ last' = [op |-> "is_hidden_from", light |-> last.light, point |-> last.point,
              first_hit |-> last.first_hit,
              out |-> is_hidden_from(last.light, last.point, last.first_hit)]
  /\ UNCHANGED <<entities, lights, frames, aborted>>

NextLight == Irradiance \/ IsHiddenFrom

SpecLight == InitLight /\ [][NextLight]_vars

\* ---------------------------------------------- Matrix4x4 on its own

\* a matrix given by its sixteen integer entries, row by row
MatI(a, b, c, d) ==
  << <<R(a[1]), R(a[2]), R(a[3]), R(a[4])>>, <<R(b[1]), R(b[2]), R(b[3]), R(b[4])>>,
     <<R(c[1]), R(c[2]), R(c[3]), R(c[4])>>, <<R(d[1]), R(d[2]), R(d[3]), R(d[4])>> >>

\* the matrices inverse() is called on: the ones of the unit tests (a scale
\* times a translate, a translate, the all-zero matrix), the transforms of
\* the scene, matrices that need a row swap in the first, in a later and in
\* every column, singular matrices found out in the first, a middle and the
\* last column, and the projections for near = 1 and near = 0
MatrixInputs ==
  { identity,
    MatI(<<0, 0, 0, 0>>, <<0, 0, 0, 0>>, <<0, 0, 0, 0>>, <<0, 0, 0, 0>>),
    MatMul(scale(Frac(5, 2), R(4), R(8)), translate(One, R(3), R(5))),
    translate(R(7), R(8), R(9)),
    MatMul(translate(Zero, Zero, R(4)), scale(Two, Two, Two)),
    scale(One, One, Zero),
    MatI(<<0, 2, 0, 1>>, <<3, 0, 0, 0>>, <<0, 0, 1, 0>>, <<0, 0, 0, 1>>),
    MatI(<<2, 1, 0, 0>>, <<1, 3, 1, 0>>, <<0, 1, 4, 1>>, <<0, 0, 1, 5>>),
    MatI(<<1, 2, 0, 0>>, <<4, 3, 0, 1>>, <<0, 1, -5, 1>>, <<2, 0, 1, 1>>),
    MatI(<<0, 1, 0, 0>>, <<0, 0, 1, 0>>, <<1, 0, 0, 0>>, <<0, 0, 0, 1>>),
    MatI(<<1, 2, 3, 4>>, <<2, 4, 6, 8>>, <<0, 1, 0, 0>>, <<0, 0, 1, 0>>),
    MatI(<<1, 0, 0, 0>>, <<0, 1, 0, 0>>, <<0, 0, 1, 1>>, <<0, 0, 1, 1>>),
    perspective(One, R(10), R(90)).m,
    perspective(Zero, R(10), R(90)).m }

\* the points the matrices and their inverses are applied to
MatrixPoints ==
  { VecI(1, 2, 3), VecI(0, 0, 0), VecI(0, 0, 1), Vec(R(-1), Frac(1, 2), R(4)),
    VecI(0, 0, 10) }

InitMatrix ==
  /\ entities = <<>>
  /\ lights = <<>>
  /\ frames = <<>>
  /\ aborted = FALSE
  /\ last \in [op : {"input"}, m : MatrixInputs, p : MatrixPoints]

\* m.inverse()
Inverse ==
  /\ last.op = "input"
  /\ last' = [op |-> "inverse", m |-> last.m, p |-> last.p, out |-> inverse(last.m)]
  /\ UNCHANGED <<entities, lights, frames, aborted>>

\* m_inv * (m * p), for the inverse just taken
InverseOfImage ==
  /\ last.op = "inverse"
  /\ last.out.some
  /\ last' = [op |-> "image", m |-> last.m, p |-> last.p, m_inv |-> last.out.m,
              image |-> MulPoint(last.m, last.p),
              back |-> MulPoint(last.out.m, MulPoint(last.m, last.p))]
  /\ UNCHANGED <<entities, lights, frames, aborted>>

NextMatrix == Inverse \/ InverseOfImage

SpecMatrix == InitMatrix /\ [][NextMatrix]_vars

\* ------------------------------------- Film and Perspective on their own

\* the near and far planes and the fields of view the projections are built
\* with: negative, zero and positive distances in every order, and angles
\* below, at and beyond 0, 180 and 360 degrees in both units
NearInputs == { R(-1), Zero, One, R(10) }
FarInputs == { Zero, One, R(10) }
FovInputs ==
  { Degrees(R(-90)), Degrees(Zero), Degrees(R(45)), Degrees(R(90)), Degrees(R(180)),
    Degrees(R(270)), Degrees(R(360)), Degrees(R(400)),
    Radians(RNeg(One)), Radians(RDiv(PI, Two)), Radians(RMul(Two, PI)), Radians(R(7)) }

\* the raster sizes films are built with: landscape, portrait, square, empty
SizeInputs == { <<4, 3>>, <<3, 4>>, <<2, 2>>, <<1, 1>>, <<1, 5>>, <<6, 1>>, <<0, 3>>, <<3, 0>> }

InitCamera ==
  /\ entities = <<>>
  /\ lights = <<>>
  /\ frames = <<>>
  /\ aborted = FALSE
  /\ last \in [op : {"projection"}, near : NearInputs, far : FarInputs, fov : FovInputs]
             \cup [op : {"size"}, size : SizeInputs]

\* Perspective::new(near, far, fov)
PerspectiveNew ==
  /\ last.op = "projection"
  /\ \E out \in {Perspective_new(last.near, last.far, last.fov)} :
       /\ last' = [op |-> "Perspective::new", near |-> last.near, far |-> last.far,
                   fov |-> last.fov, out |-> out]
       /\ aborted' = out.panic
  /\ UNCHANGED <<entities, lights, frames>>

\* Matrix4x4::perspective(near, far, fov_degrees), and the images of the
\* points (0, 0, near) and (0, 0, far) under the matrix it returns
MatrixPerspective ==
  /\ last.op = "projection"
  /\ last.fov.unit = "Degrees"
  /\ \E out \in {perspective(last.near, last.far, last.fov.value)} :
       /\ last' = [op |-> "perspective", near |-> last.near, far |-> last.far,
                   fov_degrees |-> last.fov.value, out |-> out,
                   center_near |-> MulPoint(out.m, Vec(Zero, Zero, last.near)),
                   center_far |-> MulPoint(out.m, Vec(Zero, Zero, last.far))]
       /\ aborted' = out.panic
  /\ UNCHANGED <<entities, lights, frames>>

\* Film::new(width, height)
FilmNew ==
  /\ last.op = "size"
  /\ \E out \in {Film_new(last.size[1], last.size[2])} :
       /\ last' = [op |-> "Film::new", width |-> last.size[1], height |-> last.size[2],
                   out |-> out]
       /\ aborted' = out.panic
  /\ UNCHANGED <<entities, lights, frames>>

NextCamera == PerspectiveNew \/ MatrixPerspective \/ FilmNew

SpecCamera == InitCamera /\ [][NextCamera]_vars

\* ------------------------------------------------- The plane on its own

\* the planes intersect is called on: x = 7 (the unit test's), y = 0 and a
\* plane with a normal of length 2
PlaneInputs ==
  { Plane(One, Zero, Zero, R(-7)), Plane(Zero, One, Zero, Zero),
    Plane(Zero, Zero, Two, R(-1)) }

\* the rays: origins off and in the planes, directions towards, away from
\* and parallel to them
PlaneRays ==
  { MkRay(o, d) :
      o \in { VecI(2, 3, 4), VecI(0, 0, 0), VecI(7, 0, 1), VecI(9, 0, 0), VecI(0, 0, 3),
              VecI(-1, 5, 1) },
      d \in { VecI(1, 0, 0), VecI(0, 1, 0), VecI(0, 0, 1), VecI(0, 0, -1),
              Vec(Frac(3, 5), Zero, Frac(4, 5)), VecI(-1, -1, -1) } }

InitPlane ==
  /\ entities = <<>>
  /\ lights = <<>>
  /\ frames = <<>>
  /\ aborted = FALSE
  /\ last \in [op : {"input"}, plane : PlaneInputs, ray : PlaneRays]

\* plane.intersect(&ray)
Intersect ==
  /\ last.op = "input"
  /\ \E out \in {PlaneIntersect(last.plane, last.ray)} :
       /\ last' = [op |-> "intersect", plane |-> last.plane, ray |-> last.ray, out |-> out]
       /\ aborted' = (out.kind = "Panic")
  /\ UNCHANGED <<entities, lights, frames>>

NextPlane == Intersect

SpecPlane == InitPlane /\ [][NextPlane]_vars

\* ------------------------------------- The sphere, the box and normalize

\* the solids intersection_time is called on: the unit sphere, the scene's
\* sphere of radius 2, the sphere and the two boxes of the unit tests, a
\* sphere of radius 5 and a box with a corner at the origin
SolidInputs ==
  { Sphere_new(ZeroVec, One), Sphere_new(VecI(0, 0, 4), Two), Sphere_new(VecI(3, 0, 5), R(3)),
    Sphere_new(ZeroVec, R(5)),
    AABB(VecI(-1, -1, -1), VecI(1, 1, 1)), AABB(VecI(-1, 2, 1), VecI(3, 3, 3)),
    AABB(VecI(0, 0, 0), VecI(2, 2, 2)) }

\* the rays: origins outside, on the surface of and inside the solids;
\* directions of length 1, of other rational lengths and of length 0
SolidRays ==
  { MkRay(o, d) :
      o \in { VecI(0, 0, 50), VecI(0, 0, 5), VecI(0, 0, -3), VecI(3, 0, 4), VecI(0, 0, 1),
              VecI(0, 0, 0), Vec(Zero, Frac(1, 2), Zero), VecI(3, 0, -10), VecI(2, 0, 0),
              VecI(0, 4, 2), VecI(1, 1, 1), VecI(3, 0, 0), VecI(0, 5, 2) },
      d \in { VecI(0, 0, 1), VecI(0, 0, -1), VecI(1, 0, 0), VecI(-1, 0, 0), VecI(0, -1, 0),
              Vec(Frac(-3, 5), Zero, Frac(-4, 5)), Vec(Frac(3, 5), Zero, Frac(4, 5)),
              Vec(Zero, Frac(-3, 5), Frac(-4, 5)), Vec(Frac(2, 3), Frac(-2, 3), Frac(1, 3)),
              VecI(0, 0, 2), VecI(2, -2, 1), VecI(0, 0, 0) } }

\* the vectors normalize is called on: of length 0, of lengths between
\* 1/40000 and 1, and longer ones (the unit test's lengths 1, 4 and 5)
VectorInputs ==
  { VecI(0, 0, 0), Vec(Frac(1, 40000), Zero, Zero), Vec(Zero, Frac(-1, 100), Zero),
    Vec(Frac(1, 2), Zero, Zero), VecI(1, 0, 0), Vec(Zero, Frac(3, 5), Frac(4, 5)),
    VecI(0, 0, -1), VecI(4, 0, 0), VecI(0, 3, 4), VecI(0, -3, -4), VecI(2, -2, 1),
    VecI(-6, 0, 8) }

InitSolid ==
  /\ entities = <<>>
  /\ lights = <<>>
  /\ frames = <<>>
  /\ aborted = FALSE
  /\ last \in [op : {"input"}, solid : SolidInputs, ray : SolidRays]
            \cup [op : {"vector"}, v : VectorInputs]

\* sphere.intersection_time(ray) and sphere.intersect(&ray)
SphereIntersection ==
  /\ last.op = "input"
  /\ last.solid.kind = "Sphere"
  /\ \E out \in {SphereIntersect(last.solid, last.ray)} :
       /\ last' = [op |-> "Sphere::intersect", solid |-> last.solid, ray |-> last.ray,
                   time |-> intersection_time(last.solid, last.ray), out |-> out]
       /\ aborted' = (out.kind = "Panic")
  /\ UNCHANGED <<entities, lights, frames>>

\* aabb.intersection_time(ray)
AABBIntersectionTime ==
  /\ last.op = "input"
  /\ last.solid.kind = "AABB"
  /\ \E out \in {AABB_intersection_time(last.solid, last.ray)} :
       /\ last' = [op |-> "AABB::intersection_time", solid |-> last.solid, ray |-> last.ray,
                   out |-> out]
       /\ aborted' = (out.kind = "Panic")
  /\ UNCHANGED <<entities, lights, frames>>

\* v.normalize() : v is the vector afterwards, returned the f32 of Ok
Normalize ==
  /\ last.op = "vector"
  /\ \E out \in {normalize(last.v)} :
       last' = [op |-> "normalize", before |-> last.v, ok |-> out.ok, v |-> out.v,
                returned |-> IF out.ok THEN normalize_returned(last.v) ELSE NAN]
  /\ UNCHANGED <<entities, lights, frames, aborted>>

NextSolid == SphereIntersection \/ AABBIntersectionTime \/ Normalize

SpecSolid == InitSolid /\ [][NextSolid]_vars

\* ------------------------------------------------- Rendering built scenes

\* the scenes rays are traced in, each built by add_entity
RenderScenes ==
  { <<>>,
    add_entity(<<>>, Sphere(One), Lambertian(Red), identity).entities,
    add_entity(<<>>, Plane(Zero, Zero, Two, R(-1)), Lambertian(Green), identity).entities,
    add_entity(add_entity(<<>>, Sphere(One), Lambertian(Red), identity).entities,
               Plane(Zero, Zero, Two, R(-1)), Lambertian(Green), identity).entities,
    add_entity(<<>>, Sphere(One), Lambertian(Blue),
               MatMul(translate(Zero, Zero, R(4)), scale(Two, Two, Two))).entities }

\* their lights; one point light lies on the unit sphere and in the plane
RenderLights ==
  { <<>>,
    add_light(<<>>, DirectionalLight(VecI(0, 0, -2), White)),
    add_light(<<>>, PointLight(VecI(0, 0, 1), White)),
    add_light(<<>>, PointLight(VecI(0, 0, -7), VecI(4, 4, 4))) }

\* the rays: down the Z axis onto the entities, parallel to the plane from
\* off it and from inside it, past everything, and with a zero direction
RenderRays ==
  { MkRay(VecI(0, 0, 7), VecI(0, 0, -1)),
    MkRay(VecI(0, 0, -7), VecI(0, 0, 1)),
    MkRay(VecI(0, 0, 3), VecI(1, 0, 0)),
    MkRay(VecI(-5, 0, 1), VecI(1, 0, 0)),
    MkRay(VecI(0, 0, 9), VecI(1, 0, 0)),
    MkRay(VecI(0, 0, 2), VecI(0, 0, 0)) }

InitRender ==
  /\ entities \in RenderScenes
  /\ lights \in RenderLights
  /\ frames = <<>>
  /\ aborted = FALSE
  /\ last = [op |-> "built"]

\* scene.trace(&ray) for one pixel of the render loop
TracePixel ==
  /\ ~aborted
  /\ \E ray \in RenderRays :
     \E out \in {trace(entities, lights, ray)} :
       /\ last' = [op |-> "trace", ray |-> ray, out |-> out]
       /\ aborted' = (out.kind = "Panic")
  /\ UNCHANGED <<entities, lights, frames>>

NextRender == TracePixel

SpecRender == InitRender /\ [][NextRender]_vars

\* ----------------------------------------------------------- Properties

\* what entity i reports for the ray of the last trace call
Reported(i) == EntityIntersect(entities[i], last.ray)

\* an intersection in front of the ray's origin
PositiveHit(h) == h.kind = "Some" /\ RGt(h.time, Zero)

\* the entity the last trace call selected
Selected == last.out.sel

TraceSelected == last.op = "trace" /\ Selected.kind = "Some"

\* C1: the intersection trace selects is the one its entity reports, has
\* time > 0, and no entity of the scene reports a strictly smaller positive
\* time (so an entity with time <= 0 is never selected); when no entity
\* reports a positive time, trace selects nothing.
C1_NearestPositiveTimeSelected ==
  (last.op = "trace" /\ Selected.kind # "Panic") =>
     /\ Selected.kind = "Some" =>
          /\ Selected.idx \in 1..Len(entities)
          /\ Selected.hit = Reported(Selected.idx)
          /\ RGt(Selected.hit.time, Zero)
          /\ \A j \in 1..Len(entities) :
               PositiveHit(Reported(j)) => ~RLt(Reported(j).time, Selected.hit.time)
     /\ (\A j \in 1..Len(entities) : ~PositiveHit(Reported(j))) =>
          /\ Selected.kind = "None"
          /\ last.out.value = Black

\* C1's case: an entity reports a time <= 0 and another one is selected
C1_Witness ==
  /\ TraceSelected
  /\ \E j \in 1..Len(entities) :
       /\ Reported(j).kind = "Some"
       /\ RLe(Reported(j).time, Zero)
       /\ j # Selected.idx

\* the first entity, in insertion order, among those that report the
\* smallest positive time
FirstNearest ==
  CHOOSE i \in 1..Len(entities) :
    /\ PositiveHit(Reported(i))
    /\ \A j \in 1..Len(entities) :
         PositiveHit(Reported(j)) =>
           \/ RLt(Reported(i).time, Reported(j).time)
           \/ (REq(Reported(i).time, Reported(j).time) /\ i <= j)

\* C2: among the entities that report the same smallest positive time, trace
\* selects the one added first, and the Spectrum it returns is the radiance
\* from that entity.
C2_FirstInsertedWinsTies ==
  TraceSelected =>
     /\ \A j \in 1..Len(entities) :
          (PositiveHit(Reported(j)) /\ REq(Reported(j).time, Selected.hit.time))
             => Selected.idx <= j
     /\ Selected.idx = FirstNearest
     /\ last.out.kind = "Ok" =>
          Ok(last.out.value) =
            radiance_from(lights, last.ray, entities[FirstNearest], Reported(FirstNearest))

\* C2's case: a later entity of another material reports the same time as the
\* selected one, and the selected one is lit
C2_Witness ==
  /\ TraceSelected
  /\ last.out.kind = "Ok"
  /\ last.out.value # Black
  /\ \E j \in 1..Len(entities) :
       /\ j > Selected.idx
       /\ Reported(j).kind = "Some"
       /\ REq(Reported(j).time, Selected.hit.time)
       /\ entities[j].material # entities[Selected.idx].material

\* C6: with no entities in the scene, trace returns the zero Spectrum for
\* every ray, whatever lights the scene has; this holds of the trace of the
\* sources and of the trace that calls bounce.
C6_EmptySceneIsBlack ==
  entities = <<>> =>
     /\ last.op = "trace" => (last.out.kind = "Ok" /\ last.out.value = ZeroVec)
     /\ (last.op = "bounce" /\ last.done) => last.value = ZeroVec

\* C6's case: a trace call on a scene with a light and no entity
C6_Witness == entities = <<>> /\ lights # <<>> /\ last.op = "trace"

Minor(m, c) ==
  LET col(k) == IF k < c THEN k ELSE k + 1
      e(i, j) == m[i + 1][col(j)]
  IN RAdd(RSub(RMul(e(1, 1), RSub(RMul(e(2, 2), e(3, 3)), RMul(e(2, 3), e(3, 2)))),
               RMul(e(1, 2), RSub(RMul(e(2, 1), e(3, 3)), RMul(e(2, 3), e(3, 1))))),
          RMul(e(1, 3), RSub(RMul(e(2, 1), e(3, 2)), RMul(e(2, 2), e(3, 1)))))

\* the determinant of a 4x4 matrix, by cofactors of its first row
Determinant(m) ==
  RAdd(RSub(RMul(m[1][1], Minor(m, 1)), RMul(m[1][2], Minor(m, 2))),
       RSub(RMul(m[1][3], Minor(m, 3)), RMul(m[1][4], Minor(m, 4))))

\* C10: a call of add_entity with a singular transform panics and leaves the
\* entity list as it was, and no entity of a reachable scene has a singular
\* placement transform.
C10_SingularTransformPanics ==
  /\ [](\A i \in 1..Len(entities) : Determinant(entities[i].to_world) # Zero)
  /\ [][(last'.op = "add_entity" /\ Determinant(last'.transform) = Zero)
          => (aborted' /\ last'.panic /\ entities' = entities)]_vars

\* C10's case: add_entity was called with a singular transform on a scene
\* that already held an entity
C10_Witness ==
  /\ last.op = "add_entity"
  /\ Determinant(last.transform) = Zero
  /\ entities # <<>>

\* the number of steps a call of trace in progress can still take, at most:
\* an activation whose body has not run can recurse bounces_left times
Potential ==
  IF frames = <<>> THEN 0
  ELSE Len(frames) + (IF frames[Len(frames)].state = "called"
                      THEN 2 * frames[Len(frames)].bounces_left + 1 ELSE 0)

RECURSIVE BounceEquation(_, _)
\* what C4 says bounce(ray, n) returns on the scene of the current state
BounceEquation(ray, n) ==
  LET sel == Closest(entities, ray)
      direct == radiance_from(lights, ray, entities[sel.idx], sel.hit)
      indirect == BounceEquation(reflected_ray(ray, sel.hit), n - 1)
  IN IF sel.kind = "Panic" THEN Panicked
     ELSE IF sel.kind = "None" THEN Ok(Black)
     ELSE IF n = 0 THEN Ok(Black)
     ELSE IF direct.kind = "Panic" \/ indirect.kind = "Panic" THEN Panicked
     ELSE Ok(VAdd(direct.value, indirect.value))

RECURSIVE VisibleSum(_, _, _)
\* the sum of the terms of the lights from i on that are not hidden from the
\* point of the intersection
VisibleSum(i, entity, intersection) ==
  IF i > Len(lights) THEN Black
  ELSE VAdd(IF hidden(entities, lights[i], intersection.point)
            THEN Black
            ELSE LightTerm(lights[i], last.ray, entity, intersection).v,
            VisibleSum(i + 1, entity, intersection))

\* C5: the radiance trace returns for the selected entity is the sum of the
\* terms of the lights that are not hidden from the hit point; a light with
\* an entity between the hit point and itself adds nothing.
C5_HiddenLightsAddNothing ==
  (TraceSelected /\ last.out.kind = "Ok") =>
     last.out.value = VisibleSum(1, entities[Selected.idx], Selected.hit)

\* the square of the distance from the point of the last call to its light
SquaredDistance == dot(VSub(last.light.position, last.point), VSub(last.light.position, last.point))

\* C7: the irradiance of a point light is max(0, light_vector . normal) *
\* intensity / max(1, distance^2): the inverse square of the distance from
\* distance 1 on, and the divisor 1 below it.
C7_PointIrradianceInverseSquare ==
  (last.op = "irradiance" /\ last.light.type = "Point" /\ ~last.out.panic) =>
     last.out.e =
       VDiv(VScale(RMax(dot(light_vector(last.light, last.point).v, last.normal), Zero),
                   last.light.intensity),
            RMax(One, SquaredDistance))

\* C8: is_hidden_from is false when there is no hit; with a hit it is true
\* for a directional light, and for a point light it is true exactly when
\* the hit time is strictly less than the distance from the point to the
\* light (a negative time, or a time whose square is less than the squared
\* distance).
C8_HiddenIffHitBeforeLight ==
  last.op = "is_hidden_from" =>
     last.out =
       IF ~last.first_hit.some THEN FALSE
       ELSE IF last.light.type = "Directional" THEN TRUE
       ELSE \/ RLt(last.first_hit.time, Zero)
            \/ RLt(RMul(last.first_hit.time, last.first_hit.time), SquaredDistance)

\* C8's case: a point light asked about a hit exactly at its own distance,
\* which does not hide it
C8_Witness ==
  /\ last.op = "is_hidden_from"
  /\ last.light.type = "Point"
  /\ last.first_hit.some
  /\ RGt(last.first_hit.time, Zero)
  /\ RMul(last.first_hit.time, last.first_hit.time) = SquaredDistance
  /\ ~last.out

\* C11: inverse() returns None exactly for the singular matrices (those
\* whose determinant is zero, the all-zero matrix among them) and Some for
\* every other matrix.
C11_NoneIffSingular ==
  last.op = "inverse" => (last.out.some <=> Determinant(last.m) # Zero)

\* C11's case: inverse() has returned Some for a matrix whose first diagonal
\* entry is zero, so that a row swap was needed
C11_Witness ==
  /\ last.op = "inverse"
  /\ last.out.some
  /\ last.m[1][1] = Zero
  /\ Determinant(last.m) # Zero

\* the homogeneous coordinate w of m * p, by which Mul<Point> divides
HomogeneousW(m, p) ==
  RAdd(RAdd(RAdd(RMul(m[4][1], p[1]), RMul(m[4][2], p[2])), RMul(m[4][3], p[3])), m[4][4])

\* C12 as stated: for every matrix with an inverse, m * m_inv and m_inv * m
\* are the identity, and m_inv * (m * p) = p for every point p.
C12_InverseRoundTrip ==
  /\ (last.op = "inverse" /\ last.out.some) =>
       /\ MatMul(last.m, last.out.m) = identity
       /\ MatMul(last.out.m, last.m) = identity
  /\ last.op = "image" => last.back = last.p

\* C12 amended: for every matrix with an inverse, m * m_inv and m_inv * m are
\* the identity, and m_inv * (m * p) = p for every point p whose homogeneous
\* coordinate w under m is not zero.
C12_InverseRoundTripFinite ==
  /\ (last.op = "inverse" /\ last.out.some) =>
       /\ MatMul(last.m, last.out.m) = identity
       /\ MatMul(last.out.m, last.m) = identity
  /\ (last.op = "image" /\ HomogeneousW(last.m, last.p) # Zero) => last.back = last.p

\* C12's case: a point was taken through a matrix that needed a row swap and
\* back through its inverse, and the matrix moved the point
C12_Witness ==
  /\ last.op = "image"
  /\ last.m[1][1] = Zero
  /\ last.image # last.p
  /\ last.back = last.p

\* the angle of a PlanarAngle lies strictly between 0 and a full turn
FovInRange(fov) ==
  IF fov.unit = "Degrees"
  THEN RGt(fov.value, Zero) /\ RLt(fov.value, R(360))
  ELSE RGt(fov.value, Zero) /\ RLt(fov.value, RMul(Two, PI))

\* C13: Perspective::new succeeds exactly when near > 0, far > near and
\* 0 < fov < 360 degrees, and panics for every other input.
C13_PerspectiveNewPreconditions ==
  last.op = "Perspective::new" =>
    /\ ~last.out.panic <=>
         (RGt(last.near, Zero) /\ RGt(last.far, last.near) /\ FovInRange(last.fov))
    /\ aborted = last.out.panic

\* C13's case: a projection was built from an angle given in degrees
C13_Witness ==
  /\ last.op = "Perspective::new"
  /\ ~last.out.panic
  /\ last.fov = Degrees(R(90))
  /\ MatMul(last.out.camera_to_screen, last.out.screen_to_camera) = identity

\* C14: Matrix4x4::perspective returns a matrix exactly when 0 <= near < far
\* and 0 < fov < 180 degrees, and panics for every other input.
C14_PerspectivePreconditions ==
  last.op = "perspective" =>
    (~last.out.panic <=>
       /\ RLe(Zero, last.near) /\ RLt(last.near, last.far)
       /\ RGt(last.fov_degrees, Zero) /\ RLt(last.fov_degrees, R(180)))

\* C15: for 0 <= near < far and a field of view in range, the projection
\* sends (0, 0, near) to z = 0 and (0, 0, far) to z = 1.
C15_NearToZeroFarToOne ==
  (/\ last.op = "perspective"
   /\ RLe(Zero, last.near) /\ RLt(last.near, last.far)
   /\ RGt(last.fov_degrees, Zero) /\ RLt(last.fov_degrees, R(180))) =>
    /\ ~last.out.panic
    /\ last.center_near[3] = Zero
    /\ last.center_far[3] = One

\* the screen rectangle of the film built last: [panic, width, height]
FilmScreen == screen_space_from_aspect_ratio(aspect_ratio(last.width, last.height))

\* the raster point a screen point (x, y) is sent to
ToRaster(x, y) == MulPoint(last.out.screen_to_raster, Vec(x, y, Zero))

\* C16: screen_to_raster sends the top screen edge to raster Y = 0, the
\* bottom edge to Y = height, the left edge to X = 0 and the right edge to
\* X = width, and raster_to_screen is its inverse.
C16_ScreenToRasterFlipsY ==
  (last.op = "Film::new" /\ ~last.out.panic) =>
    /\ ToRaster(Zero, RDiv(FilmScreen.height, Two))[2] = Zero
    /\ ToRaster(Zero, RNeg(RDiv(FilmScreen.height, Two)))[2] = R(last.height)
    /\ ToRaster(RNeg(RDiv(FilmScreen.width, Two)), Zero)[1] = Zero
    /\ ToRaster(RDiv(FilmScreen.width, Two), Zero)[1] = R(last.width)
    /\ MatMul(last.out.raster_to_screen, last.out.screen_to_raster) = identity
    /\ MatMul(last.out.screen_to_raster, last.out.raster_to_screen) = identity

\* the screen point a raster point (x, y) is sent to
ToScreen(x, y) == MulPoint(last.out.raster_to_screen, Vec(R(x), R(y), Zero))

\* C17: for width >= 1 and height >= 1 the shorter raster dimension spans
\* the screen range [-1, 1] and the longer one [-k, k], k = longer / shorter,
\* so that a pixel is as wide as it is high in screen space.
C17_ShorterSideSpansUnit ==
  (last.op = "Film::new" /\ last.width >= 1 /\ last.height >= 1) =>
    /\ ~last.out.panic
    /\ ToScreen(0, 0) =
         IF last.width <= last.height
         THEN Vec(R(-1), RNeg(Frac(last.height, last.width)), Zero)
         ELSE Vec(RNeg(Frac(last.width, last.height)), R(-1), Zero)
    /\ ToScreen(last.width, last.height) =
         IF last.width <= last.height
         THEN Vec(One, Frac(last.height, last.width), Zero)
         ELSE Vec(Frac(last.width, last.height), One, Zero)
    /\ RSub(ToScreen(1, 0)[1], ToScreen(0, 0)[1]) =
         RSub(ToScreen(0, 1)[2], ToScreen(0, 0)[2])

\* C18: in a built scene every trace call returns a Spectrum and the render
\* goes on; a ray that no entity can take into its local space, a hit at a
\* point light's position and a ray parallel to a plane give black.
C18_NoPerRayAbort ==
  /\ ~aborted
  /\ last.op = "trace" =>
       /\ last.out.kind = "Ok"
       /\ (last.ray.direction = ZeroVec => last.out.value = Black)

\* the unit normal of the plane intersect was called on
PlaneNormal == normalize(<<last.plane.a, last.plane.b, last.plane.c>>).v

\* C19: Plane.intersect returns None for every ray whose direction is
\* perpendicular to the plane's normal, wherever its origin lies.
C19_ParallelRayMisses ==
  (last.op = "intersect" /\ dot(PlaneNormal, last.ray.direction) = Zero) =>
    last.out = NoHit

\* the time the plane equation gives for the ray of the last call
PlaneTime ==
  RDiv(RNeg(RAdd(dot(PlaneNormal, last.ray.origin), last.plane.d)),
       dot(PlaneNormal, last.ray.direction))

\* C20: for a ray that is not parallel to the plane, Plane.intersect returns
\* the time -(normal.origin + d) / (normal.direction), whatever its sign and
\* also when it is 0, the point of the ray at that time, which lies in the
\* plane, and the unit normal.
C20_NonParallelRayHits ==
  (last.op = "intersect" /\ dot(PlaneNormal, last.ray.direction) # Zero) =>
    /\ last.out.kind = "Some"
    /\ last.out.time = PlaneTime
    /\ last.out.point = at(last.ray, PlaneTime)
    /\ RAdd(dot(PlaneNormal, last.out.point), last.plane.d) = Zero
    /\ last.out.normal = PlaneNormal

\* the sphere's centre seen from the ray's origin, and its distance
ToCentre == VSub(last.solid.origin, last.ray.origin)
CentreDistance == length(ToCentre)

\* the ray of the last call has a unit direction and starts outside the sphere
UnitRayFromOutside ==
  /\ last.op = "Sphere::intersect"
  /\ dot(last.ray.direction, last.ray.direction) = One
  /\ RGt(CentreDistance, last.solid.radius)

\* C21: for a unit-direction ray whose origin is at distance D > r from the
\* centre of a sphere of radius r, a ray aimed at the centre gets the time
\* D - r, the hit point at that time and the unit normal from the centre to
\* the hit point, and a ray whose closest approach is at a time <= 0 gets no
\* intersection.
C21_AimedAtCentreHitsAtDMinusR ==
  UnitRayFromOutside =>
    /\ last.ray.direction = VDiv(ToCentre, CentreDistance) =>
         /\ last.time = [kind |-> "Some", time |-> RSub(CentreDistance, last.solid.radius)]
         /\ last.out.kind = "Some"
         /\ last.out.time = RSub(CentreDistance, last.solid.radius)
         /\ last.out.point = at(last.ray, RSub(CentreDistance, last.solid.radius))
         /\ dot(last.out.normal, last.out.normal) = One
         /\ last.out.normal =
              VDiv(VSub(last.out.point, last.solid.origin),
                   length(VSub(last.out.point, last.solid.origin)))
    /\ RLe(dot(ToCentre, last.ray.direction), Zero) =>
         /\ last.time = [kind |-> "None"]
         /\ last.out = NoHit

\* both cases of C21 have happened: a hit head-on from distance 5 on the
\* sphere of radius 3 is not the case here, the unit sphere from (0,0,5) is
C21_Witness ==
  /\ UnitRayFromOutside
  /\ last.ray.direction = VDiv(ToCentre, CentreDistance)
  /\ last.out.kind = "Some"
  /\ last.out.time = R(4)

\* the ray of the last call with its direction normalized, as
\* intersection_time sees it
NormalizedRay == MkRay(last.ray.origin, normalize(last.ray.direction).v)

\* the squared distance from the sphere's centre of the ray's point at the
\* returned time
SquaredDistanceAtTime ==
  dot(VSub(at(NormalizedRay, last.time.time), last.solid.origin),
      VSub(at(NormalizedRay, last.time.time), last.solid.origin))

\* the time at which the ray is closest to the centre: the two crossings of
\* the sphere's surface lie at equal distances before and after it
ClosestApproach == dot(ToCentre, NormalizedRay.direction)

\* the squared half chord r^2 - D^2 + t_ca^2 is the square of a rational, so
\* that the model's square root of it is the exact one
HalfChordExact ==
  Let(RAdd(RSub(RMul(last.solid.radius, last.solid.radius), dot(ToCentre, ToCentre)),
           RMul(ClosestApproach, ClosestApproach)), LAMBDA t_sqrd_half_chord :
    RMul(RSqrt(t_sqrd_half_chord), RSqrt(t_sqrd_half_chord)) = t_sqrd_half_chord)

\* C29: every time Sphere.intersection_time returns is >= 0, for origins
\* outside, on and inside the sphere; it is a crossing of the surface (checked
\* where the square root is exact): the nearer of the two for an origin
\* outside, the exit crossing for an origin inside.
C29_SphereTimeNonNegative ==
  (last.op = "Sphere::intersect" /\ last.time.kind = "Some") =>
    /\ RGe(last.time.time, Zero)
    /\ HalfChordExact =>
         SquaredDistanceAtTime = RMul(last.solid.radius, last.solid.radius)
    /\ RGt(CentreDistance, last.solid.radius) => RLe(last.time.time, ClosestApproach)
    /\ RLt(CentreDistance, last.solid.radius) => RGe(last.time.time, ClosestApproach)

\* a time returned for an origin inside the sphere, with the entry crossing
\* behind the origin
C29_Witness ==
  /\ last.op = "Sphere::intersect"
  /\ last.time.kind = "Some"
  /\ RLt(CentreDistance, last.solid.radius)
  /\ HalfChordExact
  /\ RGt(last.time.time, Zero)
  /\ RLt(RSub(RMul(Two, ClosestApproach), last.time.time), Zero)

\* the point p lies in the closed box of the last call
InBox(p) ==
  \A a \in 1..3 : RLe(last.solid.lower[a], p[a]) /\ RLe(p[a], last.solid.upper[a])

\* the point p lies in the interior of the box of the last call
StrictlyInBox(p) ==
  \A a \in 1..3 : RLt(last.solid.lower[a], p[a]) /\ RLt(p[a], last.solid.upper[a])

\* the times at which the line of the ray crosses the plane of a face of the
\* box: the part of the line inside the box, when there is one, begins and
\* ends at such a time
FaceTimes ==
  { RDiv(RSub(face[a], NormalizedRay.origin[a]), NormalizedRay.direction[a]) :
      <<face, a>> \in { fa \in {last.solid.lower, last.solid.upper} \X (1..3) :
                          NormalizedRay.direction[fa[2]] # Zero } }

\* the times t >= 0 at which the ray can first be in the box: 0 and the
\* crossings of face planes that are not behind the origin
MeetingTimes ==
  { t \in {Zero} \cup { ft \in FaceTimes : RGe(ft, Zero) } : InBox(at(NormalizedRay, t)) }

\* C22: AABB.intersection_time returns a time exactly when the ray meets the
\* box at some t >= 0, rays parallel to one or two axes included, and for an
\* origin outside the box the time returned is the smallest such t.
C22_TimeIffRayMeetsBox ==
  (last.op = "AABB::intersection_time" /\ last.out.kind # "Panic") =>
    /\ last.out.kind = "Some" <=> MeetingTimes # {}
    /\ (last.out.kind = "Some" /\ ~InBox(last.ray.origin)) =>
         /\ last.out.time \in MeetingTimes
         /\ \A t \in MeetingTimes : RLe(last.out.time, t)

\* a ray parallel to two axes from outside the box that hits it: the unit
\* test's, from (0,0,50) at time 49
C22_Witness ==
  /\ last.op = "AABB::intersection_time"
  /\ ~InBox(last.ray.origin)
  /\ NormalizedRay.direction[1] = Zero
  /\ NormalizedRay.direction[2] = Zero
  /\ last.out = [kind |-> "Some", time |-> R(49)]

\* the times at which the line of the ray is in the box, among the crossings
LineTimes == { t \in FaceTimes : InBox(at(NormalizedRay, t)) }

\* C30: for a ray origin strictly inside the box, AABB.intersection_time
\* succeeds and returns t_near, the negative time at which the line of the
\* ray enters the box behind the origin, not t_far, the positive time at
\* which the ray leaves it.
C30_InsideOriginReturnsNegativeEntry ==
  (last.op = "AABB::intersection_time" /\ last.out.kind # "Panic"
     /\ StrictlyInBox(last.ray.origin)) =>
    /\ last.out.kind = "Some"
    /\ RLt(last.out.time, Zero)
    /\ last.out.time \in LineTimes
    /\ \A t \in LineTimes : RLe(last.out.time, t)
    /\ \E t \in LineTimes : RGt(t, Zero)

\* a ray from the centre of the box [-1,1]^3 along a diagonal direction
C30_Witness ==
  /\ last.op = "AABB::intersection_time"
  /\ StrictlyInBox(last.ray.origin)
  /\ last.ray.direction = Vec(Frac(2, 3), Frac(-2, 3), Frac(1, 3))
  /\ last.out = [kind |-> "Some", time |-> Frac(-3, 2)]

C24_NormalizeFailsIffShort ==
  last.op = "normalize" =>
    /\ ~last.ok <=> RLe(length(last.before), Frac(1, 1000000))
    /\ ~last.ok => last.v = last.before
    /\ last.ok =>
         /\ VScale(length(last.before), last.v) = last.before
         /\ length(last.v) = One
         /\ last.returned = One

\* the shortest vector of the inputs that is normalized: length 1/40000
C24_Witness ==
  /\ last.op = "normalize"
  /\ last.ok
  /\ length(last.before) = Frac(1, 40000)
  /\ last.v = VecI(1, 0, 0)
  /\ last.returned = One

\* C25: DirectionalLight.irradiance(point, normal) does not depend on the
\* point and equals max(0, (-direction) . normal) * radiance.
C25_DirectionalIrradiance ==
  (last.op = "irradiance" /\ last.light.type = "Directional") =>
    /\ ~last.out.panic
    /\ last.out.e =
         VScale(RMax(Zero, dot(VNeg(last.light.direction), last.normal)), last.light.radiance)
    /\ \A point \in PointInputs : irradiance(last.light, point, last.normal) = last.out

\* a normal facing away from the light: the dot product is negative and the
\* irradiance is zero
C25_Witness ==
  /\ last.op = "irradiance"
  /\ last.light.type = "Directional"
  /\ RLt(dot(VNeg(last.light.direction), last.normal), Zero)
  /\ last.out.e = Black

\* the normal of the first hit of the ray of activation i of bounce
HitNormal(i) == Closest(entities, frames[i].ray).hit.normal

C27_TimeIsWorldDistance ==
  (last.op = "trace" /\ dot(last.ray.direction, last.ray.direction) = One) =>
    \A i \in 1..Len(entities) :
      PositiveHit(Reported(i)) =>
        Reported(i).time = distance_to(last.ray.origin, Reported(i).point)

\* the angle Perspective::new was asked for, in degrees
RequestedDegrees ==
  IF last.fov.unit = "Degrees" THEN last.fov.value
  ELSE RMul(last.fov.value, RDiv(R(180), PI))

\* C28: Perspective::new stores as camera_to_screen the projection for the
\* requested angle, the matrix Matrix4x4::perspective returns for that angle
\* in degrees, whose X and Y scale is 1 / tan(fov / 2) of the requested fov,
\* and as screen_to_camera the inverse of that matrix.
C28_ProjectionForRequestedAngle ==
  (last.op = "Perspective::new" /\ ~last.out.panic) =>
    /\ ~perspective(last.near, last.far, RequestedDegrees).panic
    /\ last.out.camera_to_screen = perspective(last.near, last.far, RequestedDegrees).m
    /\ last.out.camera_to_screen[1][1] =
         RDiv(One, tan(RDiv(to_radians(RequestedDegrees), Two)))
    /\ last.out.camera_to_screen[2][2] = last.out.camera_to_screen[1][1]
    /\ last.out.screen_to_camera = inverse(last.out.camera_to_screen).m

====
